---- MODULE Spec2Model ----
(***************************************************************************)
(* Privilege-separated BPF initiator of dhcpcd (src/src/privsep-bpf.c).    *)
(*                                                                         *)
(* The supervisor (root process) keeps a registry of worker records keyed  *)
(* by (protocol command, interface index, address).  ps_bpf_cmd creates a  *)
(* record and forks a worker; the worker opens its BPF handle, narrows its *)
(* rights, registers the handle with its event loop, enters the sandbox    *)
(* and then relays frames: ps_bpf_recvbpf upward to the supervisor, where  *)
(* ps_bpf_dispatch hands them to arp_packet / dhcp_packet, and             *)
(* ps_bpf_recvmsgcb downward to the raw handle.                            *)
(*                                                                         *)
(* The file is built with ARP defined.  HAVE_CAPSICUM / HAVE_PLEDGE is a   *)
(* build choice fixed in Init; whether assert() is compiled in (NDEBUG) is *)
(* chosen where the assertion stands.  Code of the repository outside src/ *)
(* (privsep.c, privsep-root.c, bpf.c, if.c, eloop.c, privsep.h, bpf.h) is  *)
(* modelled from the written specification.                                *)
(***************************************************************************)
EXTENDS Integers, Sequences, FiniteSets, TLC

VARIABLES
    build,          \* "plain" | "capsicum" | "pledge": which sandbox #ifdef is compiled in
    root,           \* "running" | "aborted": the supervisor process
    ifaces,         \* ctx->ifaces: interface indexes the supervisor currently knows
    ps_processes,   \* ctx->ps_processes: the supervisor's worker records
    procs,          \* pid -> worker process (its own copy of psp), or NoProc
    psp_fd,         \* pid -> messages in flight on the worker's control channel
    data_fd,        \* messages in flight from workers to the supervisor (ps_data_fd)
    handled,        \* the protocol handler invocations made for the batch in data_fd
    pass,           \* what the last run of ps_bpf_recvbpf did
    last            \* the last handler call made and what it returned

vars == <<build, root, ifaces, ps_processes, procs, psp_fd, data_fd,
          handled, pass, last>>

-----------------------------------------------------------------------------
(* Bounds of the model *)

MaxProcs == 2       \* worker processes alive at one time
MaxQueue == 1       \* messages in flight on the workers' control channels
MaxBatch == 2       \* frames one BPF buffer holds
MaxLen == 2         \* bytes of the longest frame

-----------------------------------------------------------------------------
(* Command codes, privsep.h *)

PS_BOOTP == 1           \* a command of another subsystem: not a BPF command
PS_BPF_BOOTP == 4
PS_BPF_ARP == 5
PS_START == 16384       \* 0x4000
PS_STOP == 32768        \* 0x8000

(* Ethertypes and BPF flags *)
ETHERTYPE_IP == 2048    \* 0x0800
ETHERTYPE_ARP == 2054   \* 0x0806
BPF_EOF == 1
BPF_BCAST == 4

\* sizeof(bpf->bpf_flags), the prefix ps_bpf_recvbpf reserves
SizeofBpfFlags == 4
\* sizeof(unsigned int), the prefix ps_bpf_dispatch strips
SizeofUInt == 4
\* sizeof(struct interface), in words of the model: <<index, name>>
SizeofInterface == 2

NULL == -1
INADDR_ANY == 0

\* cmd & bit, for a single-bit mask
HasBit(cmd, bit) == (cmd \div bit) % 2 = 1

\* (uint16_t)(cmd & ~(PS_START | PS_STOP)): PS_START and PS_STOP are the two top bits
ClearStartStop(cmd) == (cmd % 65536) % PS_START

\* (uint8_t)x
Uint8(x) == x % 256

Range(q) == {q[i] : i \in DOMAIN q}

-----------------------------------------------------------------------------
(* The values the model draws its inputs from *)

\* The commands of the two frame protocols
FrameCommands == {PS_BPF_ARP, PS_BPF_BOOTP}

Ifindexes == {1}
Addrs == {INADDR_ANY, 5}                 \* 0.0.0.0 and one unicast address
Tags == {PS_BOOTP, PS_BPF_BOOTP, PS_BPF_ARP}
Modifiers == {0, PS_START, PS_STOP, PS_START + PS_STOP}
Commands == {t + m : t \in Tags, m \in Modifiers}

\* struct interface as the supervisor holds it
Interface(i) == [index |-> i, name |-> 100 + i]

\* The bytes of a struct interface as ps_bpf_open* pass them (ifp, sizeof(*ifp))
IfpBytes(ifp) == <<ifp.index, ifp.name>>

\* One frame of each length 1..MaxLen, every byte of every frame distinct
Frame(n) == [i \in 1..n |-> 10 * n + i]
Frames == {Frame(n) : n \in 1..MaxLen}
Payloads == Frames \cup {<<>>}

Pids == 2..(MaxProcs + 1)
NoProc == [pc |-> "none"]
NoCall == [fn |-> "none"]
NoPsp == [psp_pid |-> NULL]
NoBpf == [bpf_fd |-> NULL]

-----------------------------------------------------------------------------
(* The worker registry, privsep.c *)

\* ps_findprocess: the record whose psp_id equals the key, or NULL
ps_findprocess(reg, id) ==
    IF \E p \in reg : p.psp_id = id
    THEN CHOOSE p \in reg : p.psp_id = id
    ELSE NoPsp

\* ps_newprocess: a zeroed record carrying the key, linked into the registry
ps_newprocess(id) ==
    [psp_id |-> id, psp_pid |-> 0, psp_proto |-> 0, psp_protostr |-> "",
     psp_filter |-> "", psp_ifname |-> 0, psp_ifp |-> [index |-> 0, name |-> 0]]

\* ps_freeprocess: unlink the record
ps_freeprocess(reg, psp) == reg \ {psp}

\* A pid no live or unreaped worker holds; fork fails when there is none
FreePids == {p \in Pids : procs[p] = NoProc}

-----------------------------------------------------------------------------
(* Injection Path, supervisor side: lines 311-377 *)

\* ps_bpf_send putting a flags word in front of the data, as the capture loop does
ps_bpf_sendFlagged(ifp, ia, cmd, data) ==
    [psm |-> [ps_cmd |-> cmd,
              ps_id |-> [psi_ifindex |-> ifp.index,
                         psi_cmd |-> Uint8(ClearStartStop(cmd)),
                         psi_addr |-> IF ia # NULL THEN ia ELSE INADDR_ANY]],
     data |-> <<0, 0, 0, 0>> \o data]

\* ps_bpf_send putting the whole command, modifier bits included, in the key
ps_bpf_sendRawCmd(ifp, ia, cmd, data) ==
    [psm |-> [ps_cmd |-> cmd,
              ps_id |-> [psi_ifindex |-> ifp.index,
                         psi_cmd |-> cmd,
                         psi_addr |-> IF ia # NULL THEN ia ELSE INADDR_ANY]],
     data |-> data]

\* ps_bpf_send: the Command Message handed to ps_sendpsmdata(ctx->ps_root_fd)
ps_bpf_send(ifp, ia, cmd, data) ==
    [psm |-> [ps_cmd |-> cmd,
              ps_id |-> [psi_ifindex |-> ifp.index,
                         psi_cmd |-> Uint8(ClearStartStop(cmd)),
                         psi_addr |-> IF ia # NULL THEN ia ELSE INADDR_ANY]],
     data |-> data]

ps_bpf_openarp(ifp, ia) == ps_bpf_send(ifp, ia, PS_BPF_ARP + PS_START, IfpBytes(ifp))
\* ps_bpf_closearp leaving the address out of the key, as ps_bpf_closebootp does
ps_bpf_closearpNoAddr(ifp, ia) == ps_bpf_send(ifp, NULL, PS_BPF_ARP + PS_STOP, <<>>)
ps_bpf_closearp(ifp, ia) == ps_bpf_send(ifp, ia, PS_BPF_ARP + PS_STOP, <<>>)
ps_bpf_sendarp(ifp, ia, data) == ps_bpf_send(ifp, ia, PS_BPF_ARP, data)
ps_bpf_openbootp(ifp) == ps_bpf_send(ifp, NULL, PS_BPF_BOOTP + PS_START, IfpBytes(ifp))
ps_bpf_closebootp(ifp) == ps_bpf_send(ifp, NULL, PS_BPF_BOOTP + PS_STOP, <<>>)
ps_bpf_sendbootp(ifp, data) == ps_bpf_send(ifp, NULL, PS_BPF_BOOTP, data)

-----------------------------------------------------------------------------
(* Control Dispatcher, worker creation: ps_bpf_cmd, lines 183-275 *)

\* What a handler of the supervisor returned
Returned(fn, ret, errno) == last' = [fn |-> fn, ret |-> ret, errno |-> errno]

\* ps_bpf_cmd without the test of line 216: a START is never "already running"
CmdCheckNoFind(psm, psp) ==
    LET cmd == ClearStartStop(psm.ps_cmd) IN
    IF cmd \notin {PS_BPF_ARP, PS_BPF_BOOTP}
    THEN [go |-> FALSE, ret |-> -1, errno |-> "ENOTSUP"]
    ELSE IF ~HasBit(psm.ps_cmd, PS_START)
    THEN [go |-> FALSE, ret |-> -1, errno |-> "EINVAL"]
    ELSE [go |-> TRUE, ret |-> 0, errno |-> ""]

\* ps_bpf_cmd answering a repeated START with 0, the value a child sees
CmdCheckZero(psm, psp) ==
    LET cmd == ClearStartStop(psm.ps_cmd) IN
    IF cmd \notin {PS_BPF_ARP, PS_BPF_BOOTP}
    THEN [go |-> FALSE, ret |-> -1, errno |-> "ENOTSUP"]
    ELSE IF ~HasBit(psm.ps_cmd, PS_START)
    THEN [go |-> FALSE, ret |-> -1, errno |-> "EINVAL"]
    ELSE IF psp # NoPsp
    THEN [go |-> FALSE, ret |-> 0, errno |-> ""]
    ELSE [go |-> TRUE, ret |-> 0, errno |-> ""]

\* ps_bpf_cmd without the test of line 211: whatever carries a frame protocol's
\* tag is taken for a START
CmdCheckAnyStarts(psm, psp) ==
    LET cmd == ClearStartStop(psm.ps_cmd) IN
    IF cmd \notin {PS_BPF_ARP, PS_BPF_BOOTP}
    THEN [go |-> FALSE, ret |-> -1, errno |-> "ENOTSUP"]
    ELSE IF psp # NoPsp
    THEN [go |-> FALSE, ret |-> 1, errno |-> ""]
    ELSE [go |-> TRUE, ret |-> 0, errno |-> ""]

\* lines 192-217: what ps_bpf_cmd returns before it creates anything, or go to
\* say that it goes on to create a worker.  psp is what ps_findprocess found.
CmdCheck(psm, psp) ==
    LET cmd == ClearStartStop(psm.ps_cmd) IN
    IF cmd \notin {PS_BPF_ARP, PS_BPF_BOOTP}
    THEN [go |-> FALSE, ret |-> -1, errno |-> "ENOTSUP"]
    ELSE IF ~HasBit(psm.ps_cmd, PS_START)
    THEN [go |-> FALSE, ret |-> -1, errno |-> "EINVAL"]
    ELSE IF psp # NoPsp
    THEN [go |-> FALSE, ret |-> 1, errno |-> ""]
    ELSE [go |-> TRUE, ret |-> 0, errno |-> ""]

\* Words an over-read of a short START payload can pick up
GarbageWords == {9}

\* lines 223-231: memcpy(ifp, iov->iov_base, sizeof(*ifp)) and the ifname copy;
\* g stands for the bytes read past the end of a payload that is too short
CopyInterface(psp, data, g) ==
    LET ifp == [index |-> IF Len(data) >= 1 THEN data[1] ELSE g,
                name |-> IF Len(data) >= 2 THEN data[2] ELSE g]
    IN  [psp EXCEPT !.psp_ifp = ifp, !.psp_ifname = ifp.name]

\* lines 233-246: protocol tag, name and filter from the masked command
ProtoSwitch(psp, cmd) ==
    IF cmd = PS_BPF_ARP
    THEN [psp EXCEPT !.psp_proto = ETHERTYPE_ARP, !.psp_protostr = "ARP",
                     !.psp_filter = "bpf_arp"]
    ELSE IF cmd = PS_BPF_BOOTP
    THEN [psp EXCEPT !.psp_proto = ETHERTYPE_IP, !.psp_protostr = "BOOTP",
                     !.psp_filter = "bpf_bootp"]
    ELSE psp

\* The worker as fork() leaves it: a copy of the record, ps_dostart about to call
\* ps_bpf_start_bpf.  steps: the start-up calls made so far; limit: what
\* cap_rights_limit returned; ret: what ps_bpf_start_bpf returned, once it has;
\* exit: the status eloop_exit was called with; sandbox: what cap_enter / pledge
\* returned; captured: ps_bpf_recvbpf has run; nread: the frames it has read.
Child(psp) ==
    [pc |-> "forked", psp |-> psp, steps |-> <<>>, psp_bpf |-> NoBpf,
     bpf_flags |-> 0, psp_work_fd |-> -1, registered |-> FALSE, limit |-> "",
     ret |-> <<>>, exit |-> "none", sandbox |-> "", captured |-> FALSE,
     nread |-> 0]

\* lines 225: assert(iov->iov_len == sizeof(*ifp)); nd: built with NDEBUG
AssertFails(data, nd) == Len(data) # SizeofInterface /\ ~nd

\* ps_bpf_cmd returning -1 at line 254 without ps_freeprocess: the record stays
StartWorkerLeak(m, cmd) ==
    LET new == ps_newprocess(m.psm.ps_id) IN
    \E nd \in BOOLEAN :
      IF AssertFails(m.data, nd)
      THEN /\ root' = "aborted"
           /\ ps_processes' = ps_processes \cup {new}
           /\ Returned("ps_bpf_cmd", 0, "SIGABRT")
           /\ UNCHANGED procs
      ELSE \E g \in (IF Len(m.data) < SizeofInterface THEN GarbageWords ELSE {0}) :
           LET psp == ProtoSwitch(CopyInterface(new, m.data, g), cmd) IN
           \/ /\ ps_processes' = ps_processes \cup {psp}
              /\ Returned("ps_bpf_cmd", -1, "EAGAIN")
              /\ UNCHANGED <<root, procs>>
           \/ /\ FreePids # {}
              /\ LET pid == CHOOSE p \in FreePids : \A q \in FreePids : p <= q
                     rec == [psp EXCEPT !.psp_pid = pid]
                 IN  /\ ps_processes' = ps_processes \cup {rec}
                     /\ procs' = [procs EXCEPT ![pid] = Child(psp)]
                     /\ Returned("ps_bpf_cmd", pid, "")
              /\ UNCHANGED root

\* lines 219-274 in the supervisor: the record is allocated, filled and forked
StartWorker(m, cmd) ==
    LET new == ps_newprocess(m.psm.ps_id) IN
    \E nd \in BOOLEAN :
      IF AssertFails(m.data, nd)
      THEN \* abort() with the record allocated
           /\ root' = "aborted"
           /\ ps_processes' = ps_processes \cup {new}
           /\ Returned("ps_bpf_cmd", 0, "SIGABRT")
           /\ UNCHANGED procs
      ELSE \E g \in (IF Len(m.data) < SizeofInterface THEN GarbageWords ELSE {0}) :
           LET psp == ProtoSwitch(CopyInterface(new, m.data, g), cmd) IN
           \/ \* ps_dostart returns -1
              /\ ps_processes' = ps_freeprocess(ps_processes \cup {psp}, psp)
              /\ Returned("ps_bpf_cmd", -1, "EAGAIN")
              /\ UNCHANGED <<root, procs>>
           \/ \* ps_dostart returns the child's pid
              /\ FreePids # {}
              /\ LET pid == CHOOSE p \in FreePids : \A q \in FreePids : p <= q
                     rec == [psp EXCEPT !.psp_pid = pid]
                 IN  /\ ps_processes' = ps_processes \cup {rec}
                     /\ procs' = [procs EXCEPT ![pid] = Child(psp)]
                     /\ Returned("ps_bpf_cmd", pid, "")
              /\ UNCHANGED root

ps_bpf_cmd(m) ==
    LET psp == ps_findprocess(ps_processes, m.psm.ps_id)
        chk == CmdCheck(m.psm, psp)
    IN  /\ root = "running"
        /\ IF ~chk.go
           THEN /\ Returned("ps_bpf_cmd", chk.ret, chk.errno)
                /\ UNCHANGED <<root, ps_processes, procs>>
           ELSE \/ \* ps_newprocess returns NULL
                   /\ Returned("ps_bpf_cmd", -1, "ENOMEM")
                   /\ UNCHANGED <<root, ps_processes, procs>>
                \/ StartWorker(m, ClearStartStop(m.psm.ps_cmd))
        /\ UNCHANGED <<build, ifaces, psp_fd, data_fd, handled, pass>>

-----------------------------------------------------------------------------
(* Worker start-up: ps_bpf_start_bpf, lines 131-173, called by ps_dostart in the
   child; then the rest of ps_dostart and of ps_bpf_cmd in the child *)

\* The handle bpf_open returns: its descriptor, and what it was opened with
BpfHandle(w) ==
    [bpf_fd |-> 3, ifindex |-> w.psp.psp_ifp.index, filter |-> w.psp.psp_filter,
     ia |-> IF w.psp.psp_id.psi_addr = INADDR_ANY THEN NULL
            ELSE w.psp.psp_id.psi_addr]

OpenResults == {"ok", "fail"}
LimitResults == {"ok", "ENOSYS", "EPERM"}
AddResults == {"ok", "fail"}

\* eloop_exit(ctx->eloop, EXIT_FAILURE); return -1
StartFailed(w) ==
    [w EXCEPT !.pc = "exiting", !.exit = "EXIT_FAILURE", !.ret = <<-1>>]

\* ps_bpf_start_bpf taking every cap_rights_limit failure for ENOSYS
StartBpfLax(w, open, limit, add) ==
    LET w1 == [w EXCEPT !.steps = @ \o <<"setproctitle", "ps_freeprocesses", "bpf_open">>,
                        !.psp_bpf = IF open = "ok" THEN BpfHandle(w) ELSE NoBpf]
        w2 == [w1 EXCEPT !.steps = @ \o <<"cap_rights_limit">>, !.limit = limit]
        w3 == IF build = "capsicum" THEN w2 ELSE w1
        w4 == [w3 EXCEPT !.steps = @ \o <<"eloop_event_add">>]
    IN  IF open # "ok"
        THEN StartFailed(w1)
        ELSE IF add # "ok"
        THEN StartFailed(w4)
        ELSE [w4 EXCEPT !.pc = "started", !.registered = TRUE,
                        !.psp_work_fd = w4.psp_bpf.bpf_fd, !.ret = <<0>>]

\* The worker after ps_bpf_start_bpf, given what bpf_open, cap_rights_limit and
\* eloop_event_add return
StartBpf(w, open, limit, add) ==
    LET w1 == [w EXCEPT !.steps = @ \o <<"setproctitle", "ps_freeprocesses", "bpf_open">>,
                        !.psp_bpf = IF open = "ok" THEN BpfHandle(w) ELSE NoBpf]
        w2 == [w1 EXCEPT !.steps = @ \o <<"cap_rights_limit">>, !.limit = limit]
        w3 == IF build = "capsicum" THEN w2 ELSE w1
        w4 == [w3 EXCEPT !.steps = @ \o <<"eloop_event_add">>]
    IN  IF open # "ok"
        THEN StartFailed(w1)
        ELSE IF build = "capsicum" /\ limit \notin {"ok", "ENOSYS"}
        THEN StartFailed(w2)
        ELSE IF add # "ok"
        THEN StartFailed(w4)
        ELSE [w4 EXCEPT !.pc = "started", !.registered = TRUE,
                        !.psp_work_fd = w4.psp_bpf.bpf_fd, !.ret = <<0>>]

\* ps_dostart in the child, after the callback returned 0: PSF_DROPPRIVS
ps_dropprivs(w) == [w EXCEPT !.steps = @ \o <<"ps_dropprivs">>]

SandboxResults == {"ok", "ENOSYS", "EPERM"}

\* lines 257-266: the sandbox calls the build has
SandboxSteps ==
    IF build = "capsicum" THEN <<"cap_enter">>
    ELSE IF build = "pledge" THEN <<"pledge">>
    ELSE <<>>

\* lines 253-274 in the worker: ps_dostart returned 0.  cap_enter / pledge is
\* called and returns res; a failure is logged and the worker goes on to its
\* event loop
CmdChild(w, res) ==
    [w EXCEPT !.pc = "loop", !.steps = @ \o SandboxSteps,
              !.sandbox = IF build = "plain" THEN "" ELSE res]

\* The child from fork() to its event loop: ps_bpf_start_bpf, and when that
\* returns 0 the privilege drop and the sandbox; when it returns -1 the exit it
\* requested
ChildStart(w, open, limit, add, res) ==
    LET w1 == StartBpf(w, open, limit, add) IN
    IF w1.ret = <<0>> THEN CmdChild(ps_dropprivs(w1), res) ELSE w1

ps_dostart_child(pid) ==
    /\ procs[pid].pc = "forked"
    /\ \E open \in OpenResults, limit \in LimitResults, add \in AddResults,
          res \in SandboxResults :
         procs' = [procs EXCEPT ![pid] = ChildStart(procs[pid], open, limit, add, res)]
    /\ UNCHANGED <<build, root, ifaces, ps_processes, psp_fd, data_fd,
                   handled, pass, last>>

-----------------------------------------------------------------------------
(* Signals and exit: ps_bpf_signal_bpfcb, lines 175-181 *)

Signals == {"SIGTERM", "SIGINT"}

\* The callback taking SIGINT for a clean shutdown too
ExitStatusInt(sig) ==
    IF sig \in {"SIGTERM", "SIGINT"} THEN "EXIT_SUCCESS" ELSE "EXIT_FAILURE"

\* line 180: the status eloop_exit is called with
ExitStatus(sig) == IF sig = "SIGTERM" THEN "EXIT_SUCCESS" ELSE "EXIT_FAILURE"

ps_bpf_signal_bpfcb(pid, sig) ==
    /\ procs[pid].pc = "loop"
    /\ procs' = [procs EXCEPT ![pid].pc = "exiting", ![pid].exit = ExitStatus(sig)]
    /\ UNCHANGED <<build, root, ifaces, ps_processes, psp_fd, data_fd,
                   handled, pass, last>>

\* eloop_exit was requested: the event loop returns and the process exits, which
\* closes its end of the control channel
WorkerExit(pid) ==
    /\ procs[pid].pc = "exiting"
    /\ procs' = [procs EXCEPT ![pid] = [pc |-> "dead", psp |-> procs[pid].psp]]
    /\ psp_fd' = [psp_fd EXCEPT ![pid] = <<>>]
    /\ UNCHANGED <<build, root, ifaces, ps_processes, data_fd, handled, pass, last>>

\* The supervisor sees the control channel of a dead worker closed and releases
\* the worker's record
WorkerReap(pid) ==
    /\ root = "running"
    /\ procs[pid].pc = "dead"
    /\ ps_processes' = {r \in ps_processes : r.psp_pid # pid}
    /\ procs' = [procs EXCEPT ![pid] = NoProc]
    /\ UNCHANGED <<build, root, ifaces, psp_fd, data_fd, handled, pass, last>>

-----------------------------------------------------------------------------
(* Frame Envelope: the flags field, then the frame *)

ClearBit(flags, bit) == IF HasBit(flags, bit) THEN flags - bit ELSE flags

\* The flags word written most significant byte first
FlagBytesBE(flags) ==
    [i \in 1..SizeofBpfFlags |-> (flags \div (256 ^ (SizeofBpfFlags - i))) % 256]

\* memcpy(buf, &bpf->bpf_flags, sizeof(bpf->bpf_flags)): the bytes of the flags
\* word in the host's order (least significant first)
FlagBytes(flags) == [i \in 1..SizeofBpfFlags |-> (flags \div (256 ^ (i - 1))) % 256]

\* memcpy(&bpf_flags, bpf, sizeof(bpf_flags)): g stands for the bytes read past the
\* end of a message shorter than the flags word
RECURSIVE ReadWord(_, _, _)
ReadWord(bytes, n, g) ==
    IF n = 0 THEN 0
    ELSE (IF n <= Len(bytes) THEN bytes[n] ELSE g) * (256 ^ (n - 1))
         + ReadWord(bytes, n - 1, g)

-----------------------------------------------------------------------------
(* Capture Loop: ps_bpf_recvbpf, lines 61-92 *)

\* What bpf_read can deliver in one call: a frame and the flag it reports for it
\* (the frames of even length are the broadcast ones)
FrameReads == {[frame |-> f, bcast |-> IF Len(f) % 2 = 0 THEN BPF_BCAST ELSE 0] :
               f \in Frames}

\* What the raw handle holds at a wakeup: frames, and how the buffer ends: the
\* BPF_EOF flag set with the last frame, a read of zero bytes, or a failing read
Scripts ==
    UNION {{[frames |-> fs, end |-> e] : fs \in [1..n -> FrameReads],
            e \in (IF n = 0 THEN {"zero", "error"} ELSE {"eof", "zero", "error"})}
           : n \in 0..MaxBatch}

\* bpf_read, the k-th call of a pass: the length read, the frame and bpf_flags after
bpf_read(script, k, flags) ==
    IF k <= Len(script.frames)
    THEN [len |-> Len(script.frames[k].frame), frame |-> script.frames[k].frame,
          flags |-> script.frames[k].bcast
                    + (IF k = Len(script.frames) /\ script.end = "eof"
                       THEN BPF_EOF ELSE 0)]
    ELSE [len |-> IF script.end = "error" THEN -1 ELSE 0, frame |-> <<>>,
          flags |-> flags]

\* What ps_sendpsmdata returns for the k-th frame: the send fixed by failAt fails
SendFailures == {"ECONNRESET", "EPIPE", "zero"}
NoFailure == [failAt |-> 0, kind |-> ""]
Sends == {NoFailure} \cup [failAt : 1..MaxBatch, kind : SendFailures]
ps_sendpsmdata(send, k, len) ==
    IF send.failAt # k THEN [ret |-> len, errno |-> ""]
    ELSE IF send.kind = "zero" THEN [ret |-> 0, errno |-> ""]
    ELSE [ret |-> -1, errno |-> send.kind]

\* A capture loop stamping every message as BOOTP
CaptureMsgBootp(w, r) ==
    [psm |-> [ps_id |-> w.psp.psp_id, ps_cmd |-> PS_BPF_BOOTP],
     data |-> FlagBytes(r.flags) \o r.frame,
     via |-> "capture", frame |-> r.frame, flags |-> r.flags]

\* lines 68-71 and 84-86: the message built for one frame: psm from the worker's
\* key, the payload the flags then the frame.  frame and flags repeat what was
\* captured.
CaptureMsg(w, r) ==
    [psm |-> [ps_id |-> w.psp.psp_id, ps_cmd |-> w.psp.psp_id.psi_cmd],
     data |-> FlagBytes(r.flags) \o r.frame,
     via |-> "capture", frame |-> r.frame, flags |-> r.flags]

\* The loop without the break of lines 89-90: after a send that failed it reads on
RECURSIVE RecvLoopNoBreak(_, _, _, _)
RecvLoopNoBreak(w, script, send, st) ==
    IF HasBit(st.flags, BPF_EOF) THEN st
    ELSE LET k == st.reads + 1
             r == bpf_read(script, k, st.flags)
         IN  IF r.len = -1
             THEN [st EXCEPT !.reads = k, !.logged = Append(@, "bpf_read")]
             ELSE IF r.len = 0
             THEN [st EXCEPT !.reads = k]
             ELSE LET msg == CaptureMsg(w, r)
                      res == ps_sendpsmdata(send, k, Len(msg.data))
                      st1 == [st EXCEPT !.reads = k, !.flags = r.flags,
                                        !.logged = IF res.ret = -1 /\ res.errno # "ECONNRESET"
                                                   THEN Append(@, "ps_sendpsmdata")
                                                   ELSE @]
                  IN  IF res.ret = -1 \/ res.ret = 0
                      THEN RecvLoopNoBreak(w, script, send, st1)
                      ELSE RecvLoopNoBreak(w, script, send,
                                           [st1 EXCEPT !.sent = Append(@, msg)])

\* The loop copying the flags into the buffer before bpf_read has updated them:
\* every message carries the flags of the frame before it
RECURSIVE RecvLoopStaleFlags(_, _, _, _)
RecvLoopStaleFlags(w, script, send, st) ==
    IF HasBit(st.flags, BPF_EOF) THEN st
    ELSE LET k == st.reads + 1
             r == bpf_read(script, k, st.flags)
         IN  IF r.len = -1
             THEN [st EXCEPT !.reads = k, !.logged = Append(@, "bpf_read")]
             ELSE IF r.len = 0
             THEN [st EXCEPT !.reads = k]
             ELSE LET msg == CaptureMsg(w, [r EXCEPT !.flags = st.flags])
                      res == ps_sendpsmdata(send, k, Len(msg.data))
                      st1 == [st EXCEPT !.reads = k, !.flags = r.flags,
                                        !.logged = IF res.ret = -1 /\ res.errno # "ECONNRESET"
                                                   THEN Append(@, "ps_sendpsmdata")
                                                   ELSE @]
                  IN  IF res.ret = -1 \/ res.ret = 0
                      THEN st1
                      ELSE RecvLoopStaleFlags(w, script, send,
                                              [st1 EXCEPT !.sent = Append(@, msg)])

\* The while loop, lines 76-91.  st: bpf_flags, the reads made, the messages sent,
\* the logerr calls made.
RECURSIVE RecvLoop(_, _, _, _)
RecvLoop(w, script, send, st) ==
    IF HasBit(st.flags, BPF_EOF) THEN st
    ELSE LET k == st.reads + 1
             r == bpf_read(script, k, st.flags)
         IN  IF r.len = -1
             THEN [st EXCEPT !.reads = k, !.logged = Append(@, "bpf_read")]
             ELSE IF r.len = 0
             THEN [st EXCEPT !.reads = k]
             ELSE LET msg == CaptureMsg(w, r)
                      res == ps_sendpsmdata(send, k, Len(msg.data))
                      st1 == [st EXCEPT !.reads = k, !.flags = r.flags,
                                        !.logged = IF res.ret = -1 /\ res.errno # "ECONNRESET"
                                                   THEN Append(@, "ps_sendpsmdata")
                                                   ELSE @]
                  IN  IF res.ret = -1 \/ res.ret = 0
                      THEN st1
                      ELSE RecvLoop(w, script, send,
                                    [st1 EXCEPT !.sent = Append(@, msg)])

\* ps_bpf_recvbpf without line 73: the loop starts from the flags the last pass left
RecvBpfNoClear(w, script, send) ==
    RecvLoop(w, script, send,
             [flags |-> w.bpf_flags, reads |-> 0, sent |-> <<>>, logged |-> <<>>])

\* One call of ps_bpf_recvbpf: BPF_EOF is cleared (line 73), then the loop runs
RecvBpf(w, script, send) ==
    RecvLoop(w, script, send,
             [flags |-> ClearBit(w.bpf_flags, BPF_EOF), reads |-> 0,
              sent |-> <<>>, logged |-> <<>>])

\* The read event of the capture descriptor fires.  script is what bpf_read
\* will return, send what ps_sendpsmdata will
ps_bpf_recvbpf(pid) ==
    /\ procs[pid].pc = "loop"
    /\ procs[pid].registered
    /\ ~procs[pid].captured
    /\ data_fd = <<>>
    /\ \E script \in Scripts, send \in Sends :
         /\ send.failAt <= Len(script.frames)
         /\ LET st == RecvBpf(procs[pid], script, send) IN
            /\ procs' = [procs EXCEPT ![pid].bpf_flags = st.flags,
                                      ![pid].captured = TRUE,
                                      ![pid].nread = Cardinality(
                                          {k \in 1..st.reads :
                                             k <= Len(script.frames)})]
            /\ data_fd' = st.sent
            /\ pass' = [pid |-> pid, script |-> script, send |-> send,
                        before |-> procs[pid].bpf_flags, reads |-> st.reads,
                        sent |-> Len(st.sent), logged |-> st.logged]
    /\ handled' = <<>>
    /\ UNCHANGED <<build, root, ifaces, ps_processes, psp_fd, last>>

-----------------------------------------------------------------------------
(* Control Dispatcher, frame delivery: ps_bpf_dispatch, lines 277-309 *)

\* size_t arithmetic; the width is scaled down to what TLC's integers hold
SizeModulus == 1073741824

\* if_findindex: the interface of that index, or NULL
if_findindex(ifs, index) == IF index \in ifs THEN index ELSE NULL

\* Bytes an over-read of a short message can pick up
GarbageBytes == {127}

\* ps_bpf_dispatch whose switch has no default: what is not ARP goes to dhcp_packet
DispatchAny(m, g) ==
    <<[handler |-> IF m.psm.ps_cmd = PS_BPF_ARP THEN "arp_packet" ELSE "dhcp_packet",
       ifp |-> if_findindex(ifaces, m.psm.ps_id.psi_ifindex),
       bpf |-> SubSeq(m.data, SizeofUInt + 1, Len(m.data)),
       bpf_len |-> (Len(m.data) - SizeofUInt) % SizeModulus,
       bpf_flags |-> ReadWord(m.data, SizeofUInt, g)]>>

\* lines 287-302: the handler invocation made for message m, or <<>> when the
\* command is not a frame command (line 303)
Dispatch(m, g) ==
    IF m.psm.ps_cmd \in {PS_BPF_ARP, PS_BPF_BOOTP}
    THEN <<[handler |-> IF m.psm.ps_cmd = PS_BPF_ARP THEN "arp_packet"
                        ELSE "dhcp_packet",
            ifp |-> if_findindex(ifaces, m.psm.ps_id.psi_ifindex),
            bpf |-> SubSeq(m.data, SizeofUInt + 1, Len(m.data)),
            bpf_len |-> (Len(m.data) - SizeofUInt) % SizeModulus,
            bpf_flags |-> ReadWord(m.data, SizeofUInt, g)]>>
    ELSE <<>>

ps_bpf_dispatch(m) ==
    /\ root = "running"
    /\ \E g \in (IF Len(m.data) < SizeofUInt THEN GarbageBytes ELSE {0}) :
         LET call == Dispatch(m, g) IN
         /\ handled' = handled \o call
         /\ IF call # <<>>
            THEN Returned("ps_bpf_dispatch", 1, "")
            ELSE Returned("ps_bpf_dispatch", -1, "ENOTSUP")
    /\ UNCHANGED <<build, root, ifaces, ps_processes, procs, psp_fd, pass>>

\* The supervisor reads the next message on the data channel
DataRecv ==
    /\ data_fd # <<>>
    /\ ps_bpf_dispatch(Head(data_fd))
    /\ data_fd' = Tail(data_fd)

\* Messages on the data channel that no capture loop built
DataMsg(c, d) ==
    [psm |-> [ps_cmd |-> c,
              ps_id |-> [psi_ifindex |-> 1, psi_cmd |-> Uint8(ClearStartStop(c)),
                         psi_addr |-> INADDR_ANY]],
     data |-> d, via |-> "foreign", frame |-> <<>>, flags |-> 0]
ForeignData ==
    {DataMsg(c, FlagBytes(0) \o Frame(1)) : c \in Commands}
    \cup {DataMsg(c, d) : c \in {PS_BPF_ARP, PS_BPF_BOOTP},
                          d \in {<<>>, FlagBytes(BPF_EOF)}}

DataForeign(m) ==
    /\ root = "running"
    /\ data_fd = <<>>
    /\ data_fd' = <<m>>
    /\ handled' = <<>>
    /\ pass' = [pid |-> 0]
    /\ UNCHANGED <<build, root, ifaces, ps_processes, procs, psp_fd, last>>

-----------------------------------------------------------------------------
(* Injection Path, worker side: ps_bpf_recvmsg / ps_bpf_recvmsgcb, lines 94-129 *)

BpfSendResults == {"ok", "fail"}

\* lines 104-118: what ps_bpf_recvmsgcb returns for message m, and the bpf_send
\* call it makes (write: the protocol and the bytes handed to bpf_send); res is
\* what bpf_send returns
RecvMsgCb(w, m, res) ==
    IF m.psm.ps_cmd \in {PS_BPF_ARP, PS_BPF_BOOTP}
    THEN [ret |-> IF res = "ok" THEN Len(m.data) ELSE -1,
          errno |-> IF res = "ok" THEN "" ELSE "EIO",
          write |-> <<[proto |-> w.psp.psp_proto, data |-> m.data]>>]
    ELSE [ret |-> -1, errno |-> "EINVAL", write |-> <<>>]

\* ps_recvpsmsg reads one message from psp_fd and calls ps_bpf_recvmsgcb with it
ps_bpf_recvmsg(pid) ==
    /\ procs[pid].pc = "loop"
    /\ psp_fd[pid] # <<>>
    /\ \E res \in BpfSendResults :
         LET m == Head(psp_fd[pid])
             r == RecvMsgCb(procs[pid], m, res)
         IN  last' = [fn |-> "ps_bpf_recvmsgcb", ret |-> r.ret, errno |-> r.errno,
                      pid |-> pid, write |-> r.write]
    /\ psp_fd' = [psp_fd EXCEPT ![pid] = Tail(@)]
    /\ UNCHANGED <<build, root, ifaces, ps_processes, procs, data_fd, handled, pass>>

-----------------------------------------------------------------------------
(* The supervisor's root channel *)

\* A message as a control channel carries it: via says who built it, orig what
\* the caller of the Injection Path passed
Sent(m, via, orig) == [psm |-> m.psm, data |-> m.data, via |-> via, orig |-> orig]

RECURSIVE SumLen(_, _)
SumLen(f, S) ==
    IF S = {} THEN 0
    ELSE LET x == CHOOSE x \in S : TRUE IN Len(f[x]) + SumLen(f, S \ {x})

\* Messages waiting on the control channels
InFlight == SumLen(psp_fd, Pids)

\* The supervisor routes a frame command to the control channel of the worker
\* its key names
Forward(m) ==
    LET psp == ps_findprocess(ps_processes, m.psm.ps_id) IN
    /\ root = "running"
    /\ m.psm.ps_cmd \in {PS_BPF_ARP, PS_BPF_BOOTP}
    /\ psp # NoPsp
    /\ procs[psp.psp_pid].pc \notin {"none", "dead"}
    /\ InFlight < MaxQueue
    /\ psp_fd' = [psp_fd EXCEPT ![psp.psp_pid] = Append(@, m)]
    /\ UNCHANGED <<build, root, ifaces, ps_processes, procs, data_fd,
                   handled, pass, last>>

IaArgs == Addrs \cup {NULL}

OpenArp(i, ia) == ps_bpf_cmd(ps_bpf_openarp(Interface(i), ia))
CloseArp(i, ia) == ps_bpf_cmd(ps_bpf_closearp(Interface(i), ia))
OpenBootp(i) == ps_bpf_cmd(ps_bpf_openbootp(Interface(i)))
CloseBootp(i) == ps_bpf_cmd(ps_bpf_closebootp(Interface(i)))
SendArp(i, ia, data) == Forward(Sent(ps_bpf_sendarp(Interface(i), ia, data), "inject", data))
SendBootp(i, data) == Forward(Sent(ps_bpf_sendbootp(Interface(i), data), "inject", data))

\* Frame commands that reach ps_bpf_cmd instead of a worker
FrameRoot ==
    {ps_bpf_sendarp(Interface(i), ia, Frame(1)) : i \in Ifindexes, ia \in Addrs}
    \cup {ps_bpf_sendbootp(Interface(i), Frame(1)) : i \in Ifindexes}

\* Messages no ps_bpf_open/close/send call builds: a command of another
\* subsystem, both modifier bits, a START whose payload is not one struct interface
BadPayloads(ifp) == {<<ifp.index>>, IfpBytes(ifp) \o <<0>>}
ForeignRoot ==
    {ps_bpf_send(Interface(1), NULL, PS_BOOTP + mod, <<>>) : mod \in Modifiers}
    \cup {ps_bpf_send(Interface(1), NULL, PS_BPF_BOOTP + mod, d) :
            mod \in {PS_START, PS_START + PS_STOP}, d \in BadPayloads(Interface(1))}
    \cup {ps_bpf_send(Interface(1), NULL, PS_BPF_BOOTP + PS_START + PS_STOP,
                      IfpBytes(Interface(1)))}

RootFrame(m) == ps_bpf_cmd(m)
RootForeign(m) == ps_bpf_cmd(m)

\* Anything written to a worker's control channel: the handler has to judge it
ChannelForeign(pid, cmd, data) ==
    /\ root = "running"
    /\ procs[pid].pc \notin {"none", "dead"}
    /\ InFlight < MaxQueue
    /\ psp_fd' = [psp_fd EXCEPT ![pid] =
                    Append(@, [psm |-> [ps_cmd |-> cmd, ps_id |-> procs[pid].psp.psp_id],
                               data |-> data, via |-> "foreign", orig |-> data])]
    /\ UNCHANGED <<build, root, ifaces, ps_processes, procs, data_fd,
                   handled, pass, last>>

-----------------------------------------------------------------------------
(* The system: the supervisor and its workers' lives *)

Builds == {"plain", "capsicum", "pledge"}

Init ==
    /\ build = "plain"
    /\ root = "running"
    /\ ifaces = Ifindexes
    /\ ps_processes = {}
    /\ procs = [p \in Pids |-> NoProc]
    /\ psp_fd = [p \in Pids |-> <<>>]
    /\ data_fd = <<>>
    /\ handled = <<>>
    /\ pass = [pid |-> 0]
    /\ last = NoCall

Next ==
    \/ \E i \in ifaces, ia \in Addrs : OpenArp(i, ia)
    \/ \E i \in ifaces, ia \in IaArgs : CloseArp(i, ia)
    \/ \E i \in ifaces : OpenBootp(i)
    \/ \E i \in ifaces : CloseBootp(i)
    \/ \E m \in FrameRoot : RootFrame(m)
    \/ \E m \in ForeignRoot : RootForeign(m)
    \/ \E p \in Pids : ps_dostart_child(p)
    \/ \E p \in Pids, sig \in Signals : ps_bpf_signal_bpfcb(p, sig)
    \/ \E p \in Pids : WorkerExit(p)
    \/ \E p \in Pids : WorkerReap(p)

Spec == Init /\ [][Next]_vars

-----------------------------------------------------------------------------
(* One worker from fork() on: start-up, a pass of the capture loop, exit *)

\* The record ps_bpf_cmd fills for a START built by ps_bpf_open*
RecordOf(m) ==
    ProtoSwitch(CopyInterface(ps_newprocess(m.psm.ps_id), m.data, 0),
                ClearStartStop(m.psm.ps_cmd))

FirstPid == CHOOSE p \in Pids : \A q \in Pids : p <= q

\* The START messages the workers of the one-worker systems were made from
Opens == {ps_bpf_openarp(Interface(1), 5), ps_bpf_openbootp(Interface(1))}

InitWorker ==
    /\ build \in Builds
    /\ root = "running"
    /\ ifaces = Ifindexes
    /\ \E m \in Opens :
         /\ ps_processes = {[RecordOf(m) EXCEPT !.psp_pid = FirstPid]}
         /\ procs = [p \in Pids |-> IF p = FirstPid THEN Child(RecordOf(m))
                                    ELSE NoProc]
    /\ psp_fd = [p \in Pids |-> <<>>]
    /\ data_fd = <<>>
    /\ handled = <<>>
    /\ pass = [pid |-> 0]
    /\ last = NoCall

NextWorker ==
    \/ \E p \in Pids : ps_dostart_child(p)
    \/ \E p \in Pids : ps_bpf_recvbpf(p)
    \/ \E p \in Pids, sig \in Signals : ps_bpf_signal_bpfcb(p, sig)
    \/ \E p \in Pids : WorkerExit(p)
    \/ \E p \in Pids : WorkerReap(p)

SpecWorker == InitWorker /\ [][NextWorker]_vars

-----------------------------------------------------------------------------
(* A running worker and the supervisor's data channel: capture and dispatch *)

\* A worker whose start-up has completed
Running(m) ==
    ChildStart(Child(RecordOf(m)), "ok", "ok", "ok", "ok")

\* Flags earlier passes of the capture loop can have left on the handle
LeftFlags == {0, BPF_EOF, BPF_BCAST, BPF_EOF + BPF_BCAST}

InitCapture ==
    /\ build = "plain"
    /\ root = "running"
    /\ ifaces = Ifindexes
    /\ \E m \in Opens :
         /\ ps_processes = {[RecordOf(m) EXCEPT !.psp_pid = FirstPid]}
         /\ \E f \in LeftFlags :
              procs = [p \in Pids |-> IF p = FirstPid
                                      THEN [Running(m) EXCEPT !.bpf_flags = f]
                                      ELSE NoProc]
    /\ psp_fd = [p \in Pids |-> <<>>]
    /\ data_fd = <<>>
    /\ handled = <<>>
    /\ pass = [pid |-> 0]
    /\ last = NoCall

NextCapture ==
    \/ \E p \in Pids : ps_bpf_recvbpf(p)
    \/ DataRecv
    \/ \E m \in ForeignData : DataForeign(m)

SpecCapture == InitCapture /\ [][NextCapture]_vars

-----------------------------------------------------------------------------
(* The supervisor's two dispatchers and the messages no worker and no
   ps_bpf_open/close/send call builds *)

NextDispatch ==
    \/ \E m \in ForeignData : DataForeign(m)
    \/ DataRecv
    \/ \E m \in ForeignRoot : RootForeign(m)

SpecDispatch == InitCapture /\ [][NextDispatch]_vars

-----------------------------------------------------------------------------
(* Two running workers and their control channels: injection *)

SecondPid == CHOOSE p \in Pids \ {FirstPid} : \A q \in Pids \ {FirstPid} : p <= q

ArpRecord == [RecordOf(ps_bpf_openarp(Interface(1), 5)) EXCEPT !.psp_pid = FirstPid]
BootpRecord == [RecordOf(ps_bpf_openbootp(Interface(1))) EXCEPT !.psp_pid = SecondPid]

InitInject ==
    /\ build = "plain"
    /\ root = "running"
    /\ ifaces = Ifindexes
    /\ ps_processes = {ArpRecord, BootpRecord}
    /\ procs = [p \in Pids |->
                  IF p = FirstPid THEN Running(ps_bpf_openarp(Interface(1), 5))
                  ELSE IF p = SecondPid
                  THEN Running(ps_bpf_openbootp(Interface(1)))
                  ELSE NoProc]
    /\ psp_fd = [p \in Pids |-> <<>>]
    /\ data_fd = <<>>
    /\ handled = <<>>
    /\ pass = [pid |-> 0]
    /\ last = NoCall

NextInject ==
    \/ \E i \in ifaces, ia \in Addrs, d \in Payloads : SendArp(i, ia, d)
    \/ \E i \in ifaces, d \in Payloads : SendBootp(i, d)
    \/ \E p \in Pids, c \in Commands : ChannelForeign(p, c, Frame(1))
    \/ \E p \in Pids : ps_bpf_recvmsg(p)

SpecInject == InitInject /\ [][NextInject]_vars

-----------------------------------------------------------------------------
(* An interface leaves while frames captured on it are on their way *)

\* The supervisor drops an interface from ctx->ifaces
InterfaceRemoved(i) ==
    /\ root = "running"
    /\ i \in ifaces
    /\ ifaces' = ifaces \ {i}
    /\ UNCHANGED <<build, root, ps_processes, procs, psp_fd, data_fd, handled,
                   pass, last>>

NextRemoval ==
    \/ \E p \in Pids : ps_bpf_recvbpf(p)
    \/ DataRecv
    \/ \E i \in Ifindexes : InterfaceRemoved(i)

SpecRemoval == InitCapture /\ [][NextRemoval]_vars

-----------------------------------------------------------------------------
(* Close: a STOP for a key, the worker's exit and the release of its record *)

\* The Routing Key a caller means by a protocol, an interface and an address
KeyOf(cmd, i, ia) ==
    [psi_ifindex |-> i, psi_cmd |-> cmd,
     psi_addr |-> IF ia = NULL THEN INADDR_ANY ELSE ia]

Keys == {KeyOf(c, i, ia) : c \in FrameCommands, i \in Ifindexes, ia \in Addrs}

\* The supervisor's root channel takes a STOP: the resources of the worker the
\* message's key names are closed, and the worker, its control channel gone,
\* leaves its event loop; the record stays until the exit is seen.  want is the
\* key the caller meant, found whether the message's key named a live worker.
StopWorker(m, want) ==
    LET psp == ps_findprocess(ps_processes, m.psm.ps_id)
        live == psp # NoPsp /\ procs[psp.psp_pid].pc \in {"forked", "loop"}
    IN  /\ root = "running"
        /\ HasBit(m.psm.ps_cmd, PS_STOP)
        /\ procs' = IF live THEN [procs EXCEPT ![psp.psp_pid].pc = "exiting"]
                    ELSE procs
        /\ last' = [fn |-> "close", key |-> want, found |-> live]
        /\ UNCHANGED <<build, root, ifaces, ps_processes, psp_fd, data_fd,
                       handled, pass>>

StopArp(i, ia) ==
    StopWorker(ps_bpf_closearp(Interface(i), ia), KeyOf(PS_BPF_ARP, i, ia))
StopBootp(i) ==
    StopWorker(ps_bpf_closebootp(Interface(i)), KeyOf(PS_BPF_BOOTP, i, NULL))

NextClose ==
    \/ \E i \in ifaces, ia \in Addrs : OpenArp(i, ia)
    \/ \E i \in ifaces : OpenBootp(i)
    \/ \E p \in Pids : ps_dostart_child(p)
    \/ \E i \in ifaces, ia \in IaArgs : StopArp(i, ia)
    \/ \E i \in ifaces : StopBootp(i)
    \/ \E p \in Pids : WorkerExit(p)
    \/ \E p \in Pids : WorkerReap(p)

\* A process whose event loop has ended exits, and the supervisor's event loop
\* runs the callback of a control channel that closed
FairClose == \A p \in Pids : WF_vars(WorkerExit(p)) /\ WF_vars(WorkerReap(p))

SpecClose == Init /\ [][NextClose]_vars /\ FairClose

-----------------------------------------------------------------------------
(* Properties *)

\* Every message the supervisor's root channel hands to ps_bpf_cmd
RootMsgs ==
    {ps_bpf_openarp(Interface(i), ia) : i \in Ifindexes, ia \in Addrs}
    \cup {ps_bpf_closearp(Interface(i), ia) : i \in Ifindexes, ia \in IaArgs}
    \cup {ps_bpf_openbootp(Interface(i)) : i \in Ifindexes}
    \cup {ps_bpf_closebootp(Interface(i)) : i \in Ifindexes}
    \cup FrameRoot \cup ForeignRoot

\* The worker processes that exist: starting, running, exiting or not yet reaped
Spawned == {p \in Pids : procs[p].pc # "none"}

\* The worker processes whose own state the model still holds
Alive == {p \in Pids : procs[p].pc \notin {"none", "dead"}}

\* The STARTs for a frame protocol among them
StartMsgs ==
    {m \in RootMsgs : /\ HasBit(m.psm.ps_cmd, PS_START)
                      /\ ClearStartStop(m.psm.ps_cmd) \in FrameCommands}

\* C1: in every reachable state the registry holds at most one worker record,
\* and the process table at most one spawned worker, per routing key
\* (protocol command, interface index, address).
OneWorkerPerKey ==
    /\ \A r1, r2 \in ps_processes : r1.psp_id = r2.psp_id => r1 = r2
    /\ \A p, q \in Spawned : procs[p].psp.psp_id = procs[q].psp.psp_id => p = q

\* Two workers with different keys exist and a repeated START has just been answered
OneWorkerPerKeyReached ==
    /\ Cardinality(ps_processes) = 2
    /\ Cardinality(Spawned) = 2
    /\ last = [fn |-> "ps_bpf_cmd", ret |-> 1, errno |-> ""]

\* C2: a START whose key already has a record makes ps_bpf_cmd return 1 with no
\* error, and the registry, the processes and the supervisor stay as they were.
StartTwiceReturnsOne ==
    [][\A m \in StartMsgs :
         (/\ ps_findprocess(ps_processes, m.psm.ps_id) # NoPsp
          /\ ps_bpf_cmd(m))
         => /\ last' = [fn |-> "ps_bpf_cmd", ret |-> 1, errno |-> ""]
            /\ ps_processes' = ps_processes
            /\ procs' = procs
            /\ root' = root]_vars

\* The one running worker's key was started again and 1 came back
StartTwiceReached ==
    /\ last = [fn |-> "ps_bpf_cmd", ret |-> 1, errno |-> ""]
    /\ Cardinality(ps_processes) = 1
    /\ \E p \in Pids : Spawned = {p} /\ procs[p].pc = "loop"

\* C3: a START whose payload is not exactly one struct interface is rejected
\* before anything is created: the step of ps_bpf_cmd that handles it adds no
\* record to the registry and spawns no process.
MismatchRejectedFirst ==
    [][\A m \in StartMsgs :
         (/\ Len(m.data) # SizeofInterface
          /\ ps_bpf_cmd(m))
         => /\ ps_processes' = ps_processes
            /\ procs' = procs]_vars

\* C4: a command whose masked tag is neither ARP nor BOOTP makes ps_bpf_cmd
\* return -1 with ENOTSUP, and a message whose unmasked command is not the plain
\* ARP or BOOTP frame command makes ps_bpf_dispatch return -1 with ENOTSUP; in
\* both cases the registry and the processes are unchanged and no handler runs.
UnknownCommandUnsupported ==
    [][/\ \A m \in ForeignRoot :
            (/\ ClearStartStop(m.psm.ps_cmd) \notin FrameCommands
             /\ ps_bpf_cmd(m))
            => /\ last' = [fn |-> "ps_bpf_cmd", ret |-> -1, errno |-> "ENOTSUP"]
               /\ UNCHANGED <<ps_processes, procs, handled>>
       /\ (/\ data_fd # <<>>
           /\ Head(data_fd).psm.ps_cmd \notin FrameCommands
           /\ DataRecv)
          => /\ last' = [fn |-> "ps_bpf_dispatch", ret |-> -1, errno |-> "ENOTSUP"]
             /\ UNCHANGED <<ps_processes, procs, handled>>]_vars

\* ps_bpf_dispatch has refused a message and called no handler for it
UnknownCommandReached ==
    /\ last = [fn |-> "ps_bpf_dispatch", ret |-> -1, errno |-> "ENOTSUP"]
    /\ handled = <<>>
    /\ data_fd = <<>>

\* The start-up calls of a worker of this build, in the order the code makes them
StartupSteps ==
    <<"setproctitle", "ps_freeprocesses", "bpf_open">>
    \o (IF build = "capsicum" THEN <<"cap_rights_limit">> ELSE <<>>)
    \o <<"eloop_event_add", "ps_dropprivs">>
    \o SandboxSteps

\* C5: a worker whose capture callback has read a frame has made every start-up
\* call in order, holds an open raw handle, had its descriptor narrowed (or the
\* platform has no narrowing) and has entered the sandbox (or the platform has
\* none): neither cap_rights_limit nor cap_enter / pledge has failed.
CaptureOnlySandboxed ==
    \A p \in Alive :
      procs[p].nread > 0 =>
        /\ procs[p].steps = StartupSteps
        /\ procs[p].psp_bpf # NoBpf
        /\ procs[p].limit \in {"", "ok", "ENOSYS"}
        /\ procs[p].sandbox \in {"", "ok", "ENOSYS"}

\* C6: when bpf_open fails, or cap_rights_limit fails with an error other than
\* ENOSYS, or eloop_event_add fails, ps_bpf_start_bpf requests exit with
\* EXIT_FAILURE and returns -1, the capture callback is not registered and
\* psp_work_fd is not set, and such a worker never captures; otherwise (ENOSYS
\* from cap_rights_limit included) the descriptor is registered and 0 returned.
StartFailureIsFatal ==
    [][/\ \A p \in Pids, open \in OpenResults, limit \in LimitResults,
             add \in AddResults, res \in SandboxResults :
            (/\ procs[p].pc = "forked"
             /\ procs' = [procs EXCEPT ![p] =
                            ChildStart(procs[p], open, limit, add, res)])
            => LET w == procs'[p]
                   fatal == \/ open # "ok"
                            \/ build = "capsicum" /\ limit \notin {"ok", "ENOSYS"}
                            \/ add # "ok"
               IN  IF fatal
                   THEN /\ w.pc = "exiting"
                        /\ w.exit = "EXIT_FAILURE"
                        /\ w.ret = <<-1>>
                        /\ ~w.registered
                        /\ w.psp_work_fd = -1
                   ELSE /\ w.pc = "loop"
                        /\ w.exit = "none"
                        /\ w.ret = <<0>>
                        /\ w.registered
                        /\ "eloop_event_add" \in Range(w.steps)
                        /\ w.psp_work_fd = w.psp_bpf.bpf_fd
       /\ \A p \in Pids :
            (procs[p].pc = "exiting" /\ procs[p].ret = <<-1>>)
            => /\ ~procs[p].captured
               /\ procs[p].nread = 0
               /\ procs'[p].pc \in {"exiting", "dead"}]_vars

\* cap_rights_limit failed with EPERM and the worker is on its way out
StartFailureReached ==
    \E p \in Pids :
      /\ procs[p].pc = "exiting"
      /\ procs[p].ret = <<-1>>
      /\ procs[p].limit = "EPERM"
      /\ procs[p].exit = "EXIT_FAILURE"

\* The state one pass of the capture loop leaves, before the supervisor reads
AfterPass == pass.pid # 0 /\ handled = <<>> /\ Len(data_fd) = pass.sent

\* The data channel holds one message for each of the first n frames of the
\* pass, in the order read, each with the worker's key and protocol command
Forwarded(n) ==
    /\ Len(data_fd) = n
    /\ \A i \in 1..n :
         LET m == data_fd[i]
             w == procs[pass.pid]
         IN  /\ m.psm.ps_id = w.psp.psp_id
             /\ m.psm.ps_cmd = w.psp.psp_id.psi_cmd
             /\ SubSeq(m.data, SizeofBpfFlags + 1, Len(m.data))
                  = pass.script.frames[i].frame

\* C7 as stated: for a handle that yields n frames and then ends, one pass
\* forwards exactly n messages, in order, with the worker's key and command.
ForwardsEveryFrame == AfterPass => Forwarded(Len(pass.script.frames))

\* C7: for a handle that yields n frames and then ends, and a data channel on
\* which every send succeeds, one pass forwards exactly n messages, in order,
\* each with the worker's key and command.
ForwardsEveryFrameSent ==
    (AfterPass /\ pass.send = NoFailure) => Forwarded(Len(pass.script.frames))

\* A pass has forwarded a full buffer of frames
ForwardsEveryFrameReached ==
    /\ AfterPass
    /\ pass.send = NoFailure
    /\ Len(pass.script.frames) = MaxBatch
    /\ Len(data_fd) = MaxBatch
    /\ data_fd[1].data # data_fd[MaxBatch].data

\* C8: a frame passed to ps_bpf_sendarp / ps_bpf_sendbootp for key K reaches the
\* worker that holds K, and ps_bpf_recvmsgcb hands bpf_send exactly the bytes
\* the caller passed, with the worker's protocol.
InjectedBytesUnchanged ==
    [][\A p \in Pids :
         (/\ psp_fd[p] # <<>>
          /\ Head(psp_fd[p]).via = "inject"
          /\ ps_bpf_recvmsg(p))
         => LET m == Head(psp_fd[p]) IN
            /\ procs[p].psp.psp_id = m.psm.ps_id
            /\ last'.write = <<[proto |-> procs[p].psp.psp_proto, data |-> m.orig]>>
            /\ Len(last'.write[1].data) = Len(m.orig)]_vars

\* The ARP worker has written the longest frame to its raw handle
InjectedBytesReached ==
    /\ last.fn = "ps_bpf_recvmsgcb"
    /\ last.pid = FirstPid
    /\ last.write = <<[proto |-> ETHERTYPE_ARP, data |-> Frame(MaxLen)]>>
    /\ last.ret = MaxLen

\* C9: a worker that receives on its control channel a command other than the
\* plain frame command of its own protocol returns -1 with EINVAL and hands
\* nothing to bpf_send.
OnlyOwnProtocol ==
    [][\A p \in Pids :
         (/\ psp_fd[p] # <<>>
          /\ Head(psp_fd[p]).psm.ps_cmd # procs[p].psp.psp_id.psi_cmd
          /\ ps_bpf_recvmsg(p))
         => /\ last'.ret = -1
            /\ last'.errno = "EINVAL"
            /\ last'.write = <<>>]_vars

\* C10: for every frame a pass forwards with flags f and bytes b, the message is
\* the flags field followed by b, and ps_bpf_dispatch calls the handler with
\* flags f, bytes b and length Len(b).
EnvelopeRoundTrip ==
    pass.pid # 0 =>
      /\ \A j \in 1..Len(handled) :
           LET r == bpf_read(pass.script, j, 0) IN
           /\ handled[j].bpf = r.frame
           /\ handled[j].bpf_len = Len(r.frame)
           /\ handled[j].bpf_flags = r.flags
      /\ \A i \in 1..Len(data_fd) :
           LET r == bpf_read(pass.script, Len(handled) + i, 0)
               m == data_fd[i]
           IN  /\ Len(m.data) = SizeofBpfFlags + Len(r.frame)
               /\ SubSeq(m.data, SizeofBpfFlags + 1, Len(m.data)) = r.frame

\* Both frames of a pass were dispatched, the last a broadcast that ended the buffer
EnvelopeRoundTripReached ==
    /\ pass.pid # 0
    /\ Len(handled) = 2
    /\ handled[2].bpf_flags = BPF_EOF + BPF_BCAST
    /\ handled[2].bpf_len = 2

\* A pass of a BOOTP worker's capture loop that read two frames
BootpPassOfTwo ==
    /\ pass.pid # 0
    /\ procs[pass.pid].psp.psp_id.psi_cmd = PS_BPF_BOOTP
    /\ procs[pass.pid].nread = 2

\* The handler has been invoked for the first frames of the pass and for nothing
\* else: dhcp_packet each time, in the order read, with the flags bpf_read left
\* for that frame and that frame's bytes and length; the rest of the n frames
\* wait on the data channel
HandledInOrder(n) ==
    /\ Len(handled) + Len(data_fd) = n
    /\ \A j \in 1..Len(handled) :
         LET r == bpf_read(pass.script, j, 0) IN
         /\ handled[j].handler = "dhcp_packet"
         /\ handled[j].bpf_flags = r.flags
         /\ handled[j].bpf_len = r.len
         /\ handled[j].bpf = r.frame

\* C11 as stated: when a BOOTP worker reads two frames in one wakeup, dhcp_packet
\* is invoked exactly twice, once per frame in capture order, with that frame's
\* flags and length, and arp_packet never.
TwoFramesTwoCalls == BootpPassOfTwo => HandledInOrder(2)

\* C11: when a BOOTP worker reads two frames in one wakeup and both sends to the
\* supervisor succeed, dhcp_packet is invoked exactly twice, once per frame in
\* capture order, with that frame's flags and length, and arp_packet never.
TwoFramesTwoCallsSent ==
    (BootpPassOfTwo /\ pass.send = NoFailure) => HandledInOrder(2)

\* Both frames of a BOOTP pass were handled: two calls that differ in flags and
\* in length
TwoFramesTwoCallsReached ==
    /\ BootpPassOfTwo
    /\ pass.send = NoFailure
    /\ data_fd = <<>>
    /\ Len(handled) = 2
    /\ handled[1].bpf_flags = BPF_BCAST
    /\ handled[2].bpf_flags = BPF_EOF
    /\ handled[1].bpf_len = 2
    /\ handled[2].bpf_len = 1
    /\ last = [fn |-> "ps_bpf_dispatch", ret |-> 1, errno |-> ""]

\* The STARTs ps_bpf_openarp / ps_bpf_openbootp build
OpenMsgs ==
    {ps_bpf_openarp(Interface(i), ia) : i \in Ifindexes, ia \in Addrs}
    \cup {ps_bpf_openbootp(Interface(i)) : i \in Ifindexes}

\* C12: once ps_bpf_closearp / ps_bpf_closebootp has been issued for a key K
\* whose record is in the registry, then (messages delivered, the process
\* exiting) a state follows in which looking up K finds no record; and an open
\* for a key that has no record does not answer 'already running'.
CloseReleasesRecord ==
    /\ \A K \in Keys :
         (last.fn = "close" /\ last.key = K
            /\ ps_findprocess(ps_processes, K) # NoPsp)
         ~> (ps_findprocess(ps_processes, K) = NoPsp)
    /\ [][\A m \in OpenMsgs :
            (/\ ps_findprocess(ps_processes, m.psm.ps_id) = NoPsp
             /\ ps_bpf_cmd(m))
            => last'.ret # 1]_vars

\* A close found its key's worker alive, and the key now has no record
CloseReleasesRecordReached ==
    /\ last.fn = "close"
    /\ last.found
    /\ ps_findprocess(ps_processes, last.key) = NoPsp

\* The messages with the tag of a frame protocol and without PS_START: the plain
\* frame commands and the STOPs
NoStartMsgs ==
    {m \in RootMsgs : /\ ~HasBit(m.psm.ps_cmd, PS_START)
                      /\ ClearStartStop(m.psm.ps_cmd) \in FrameCommands}

\* C13: a command with the ARP or BOOTP tag and without the START bit (a plain
\* frame command or a STOP) makes ps_bpf_cmd return -1 with EINVAL; the
\* registry, the worker processes and their control channels stay as they were,
\* whether or not the key has a worker.
NoStartIsInvalid ==
    [][\A m \in NoStartMsgs :
         ps_bpf_cmd(m)
         => /\ last' = [fn |-> "ps_bpf_cmd", ret |-> -1, errno |-> "EINVAL"]
            /\ UNCHANGED <<ps_processes, procs, psp_fd, root>>]_vars

\* ps_bpf_cmd has refused a command as invalid while two workers run
NoStartIsInvalidReached ==
    /\ last = [fn |-> "ps_bpf_cmd", ret |-> -1, errno |-> "EINVAL"]
    /\ Cardinality(ps_processes) = 2
    /\ Cardinality(Spawned) = 2
    /\ \A p \in Spawned : procs[p].pc = "loop"

\* C14: when ps_sendpsmdata returns -1 or 0 for a frame, the pass ends there: the
\* frame was the last one read, the frames before it are the ones forwarded, and
\* logerr is called exactly when the return was -1 with an errno other than
\* ECONNRESET (a return of 0 is not an error and logs nothing).
SendFailureStopsPass ==
    (pass.pid # 0 /\ pass.send # NoFailure) =>
      /\ pass.reads = pass.send.failAt
      /\ procs[pass.pid].nread = pass.send.failAt
      /\ pass.sent = pass.send.failAt - 1
      /\ pass.logged = IF pass.send.kind \in {"ECONNRESET", "zero"}
                       THEN <<>> ELSE <<"ps_sendpsmdata">>

\* The first send of a pass failed with EPIPE while the handle held a second
\* frame: one read, nothing forwarded, one error logged
SendFailureStopsPassReached ==
    /\ pass.pid # 0
    /\ pass.send = [failAt |-> 1, kind |-> "EPIPE"]
    /\ Len(pass.script.frames) = 2
    /\ pass.reads = 1
    /\ pass.logged = <<"ps_sendpsmdata">>
    /\ data_fd = <<>>

\* C15: whatever flags the pass before left on the handle, BPF_EOF included, a
\* call of ps_bpf_recvbpf makes at least one bpf_read, and when the handle holds
\* a frame and the first send succeeds it forwards at least one message.
EofClearedEachPass ==
    pass.pid # 0 =>
      /\ pass.before \in LeftFlags
      /\ pass.reads >= 1
      /\ (Len(pass.script.frames) >= 1 /\ pass.send.failAt # 1) => pass.sent >= 1

\* A pass that began with BPF_EOF set from the pass before read and forwarded a
\* full buffer
EofClearedEachPassReached ==
    /\ pass.pid # 0
    /\ HasBit(pass.before, BPF_EOF)
    /\ pass.reads = MaxBatch
    /\ pass.sent = MaxBatch
    /\ Len(data_fd) = MaxBatch

\* C16: a signal delivered to a worker's signal callback makes it request the
\* exit of its event loop, with EXIT_SUCCESS when the signal is SIGTERM and with
\* EXIT_FAILURE for every other signal.
SigtermIsCleanExit ==
    [][\A p \in Pids, sig \in Signals :
         ps_bpf_signal_bpfcb(p, sig)
         => /\ procs'[p].pc = "exiting"
            /\ procs'[p].exit \in {"EXIT_SUCCESS", "EXIT_FAILURE"}
            /\ (procs'[p].exit = "EXIT_SUCCESS") <=> (sig = "SIGTERM")
            /\ (procs'[p].exit = "EXIT_FAILURE") <=> (sig # "SIGTERM")]_vars

\* A worker that started and captured was sent SIGTERM and leaves with success
SigtermIsCleanExitReached ==
    \E p \in Pids :
      /\ procs[p].pc = "exiting"
      /\ procs[p].ret = <<0>>
      /\ procs[p].captured
      /\ procs[p].exit = "EXIT_SUCCESS"

\* The three messages of one protocol for one interface and address carry the
\* key (masked command, interface index, address) and differ in command code
\* and payload only
SameKey(open, send, close, cmd, i, ia, d) ==
    /\ open.psm.ps_id = KeyOf(cmd, i, ia)
    /\ send.psm.ps_id = open.psm.ps_id
    /\ close.psm.ps_id = open.psm.ps_id
    /\ open.psm.ps_cmd = cmd + PS_START
    /\ send.psm.ps_cmd = cmd
    /\ close.psm.ps_cmd = cmd + PS_STOP
    /\ open.data = IfpBytes(Interface(i))
    /\ send.data = d
    /\ close.data = <<>>

\* The record an open created, if the registry holds one, is the one the
\* send's and the close's key find
SameWorker(open, send, close) ==
    LET r == ps_findprocess(ps_processes, open.psm.ps_id) IN
    r # NoPsp =>
      /\ ps_findprocess(ps_processes, send.psm.ps_id) = r
      /\ ps_findprocess(ps_processes, close.psm.ps_id) = r

\* C17: for one protocol, interface index and address, ps_bpf_open*, ps_bpf_send*
\* and ps_bpf_close* build messages with the same key: the command with START
\* and STOP masked off, the interface's index, the address given (zero for BOOTP
\* and for no address); they differ in command code and payload only, and a
\* send or close finds the record the matching open created.
RoutingKeysAgree ==
    \A i \in Ifindexes, d \in Payloads :
      /\ \A ia \in Addrs :
           LET open == ps_bpf_openarp(Interface(i), ia)
               send == ps_bpf_sendarp(Interface(i), ia, d)
               close == ps_bpf_closearp(Interface(i), ia)
           IN  /\ SameKey(open, send, close, PS_BPF_ARP, i, ia, d)
               /\ SameWorker(open, send, close)
      /\ ps_bpf_closearp(Interface(i), NULL).psm.ps_id = KeyOf(PS_BPF_ARP, i, NULL)
      /\ LET open == ps_bpf_openbootp(Interface(i))
             send == ps_bpf_sendbootp(Interface(i), d)
             close == ps_bpf_closebootp(Interface(i))
         IN  /\ SameKey(open, send, close, PS_BPF_BOOTP, i, NULL, d)
             /\ SameWorker(open, send, close)

\* The workers two opens created run, and the keys of a send to the one and of a
\* close of the other find their records
RoutingKeysAgreeReached ==
    LET a == ps_findprocess(ps_processes,
                            ps_bpf_sendarp(Interface(1), 5, Frame(1)).psm.ps_id)
        b == ps_findprocess(ps_processes, ps_bpf_closebootp(Interface(1)).psm.ps_id)
    IN  /\ a # NoPsp
        /\ b # NoPsp
        /\ a.psp_proto = ETHERTYPE_ARP
        /\ b.psp_proto = ETHERTYPE_IP
        /\ procs[a.psp_pid].pc = "loop"
        /\ procs[b.psp_pid].pc = "loop"
        /\ last = [fn |-> "ps_bpf_cmd", ret |-> -1, errno |-> "EINVAL"]

\* C18: for every frame-delivery message ps_bpf_dispatch handles, shorter than
\* the flags field or not, the length it passes to the protocol handler is the
\* message length minus the size of the flags field and is not greater than the
\* message length.
DispatchLengthNeverWraps ==
    [][(/\ data_fd # <<>>
        /\ Head(data_fd).psm.ps_cmd \in FrameCommands
        /\ DataRecv)
       => LET m == Head(data_fd)
              call == handled'[Len(handled')]
          IN  /\ call.bpf_len = Len(m.data) - SizeofUInt
              /\ call.bpf_len <= Len(m.data)]_vars

\* C19: every protocol handler invocation ps_bpf_dispatch has made was given an
\* interface that the key's index resolved to; for a frame whose interface was
\* removed after its capture no handler is invoked with a missing interface.
HandlerInterfaceResolved ==
    \A j \in 1..Len(handled) : handled[j].ifp # NULL

\* C20: when ps_dostart returns -1 for a START, ps_bpf_cmd returns -1 with the
\* record it allocated freed again: the registry and the processes are as
\* before the START, the key has no record, and the same START repeated passes
\* the test for a running worker and goes on to create one.
SpawnFailureFreesRecord ==
    [][\A m \in StartMsgs :
         (/\ ps_findprocess(ps_processes, m.psm.ps_id) = NoPsp
          /\ ps_bpf_cmd(m)
          /\ last' = [fn |-> "ps_bpf_cmd", ret |-> -1, errno |-> "EAGAIN"])
         => /\ ps_processes' = ps_processes
            /\ procs' = procs
            /\ root' = root
            /\ ps_findprocess(ps_processes', m.psm.ps_id) = NoPsp
            /\ CmdCheck(m.psm, ps_findprocess(ps_processes', m.psm.ps_id)).go]_vars

\* A spawn has failed while the worker of another key runs; its record is the
\* only one
SpawnFailureFreesRecordReached ==
    /\ last = [fn |-> "ps_bpf_cmd", ret |-> -1, errno |-> "EAGAIN"]
    /\ Cardinality(ps_processes) = 1
    /\ \E p \in Pids : Spawned = {p} /\ procs[p].pc = "loop"

====
